---------------------------- MODULE Spec2Model ----------------------------
(***************************************************************************)
(* Model of the Wikipedia "top viewed articles" scripts:                   *)
(*   src/refactoring_code.py  (the refactored pipeline, main())            *)
(*   src/sample_code.py       (the original module-level script)           *)
(*                                                                         *)
(* Calendar days are absolute day numbers: day 1 is January 1 of BaseYear. *)
(* A pandas Timestamp (a parsed date) is such a day number; the string the *)
(* collector writes in the "date" column is a sequence of decimal digits.  *)
(***************************************************************************)
EXTENDS Integers, Sequences, FiniteSets, TLC

VARIABLES
    variant,          \* which script runs: "refactoring" or "sample"
    pc,               \* position of the run
    start_date,       \* parsed CLI argument start
    end_date,         \* parsed CLI argument end
    current_date,     \* loop variable of the collection loop
    req_day,          \* the day whose year/month/day strings were last taken
    retr,             \* loop variable of get_top_wiki_articles
    outcomes,         \* server outcomes of the requests of the current call
    sleeps,           \* time.sleep calls of the current call: <<attempt, time>>
    data,             \* value returned by get_top_wiki_articles
    df,               \* the raw table (sequence of rows)
    df_dense,         \* df inside process_wiki_data after the forward fill
    df_top_articles,  \* the table returned by process_wiki_data
    df_again,         \* process_wiki_data applied to a table it returned
    stats,            \* the result of calculate_statistics
    error,            \* the exception that ended the run, or "none"
    fetched,          \* days whose fetch returned a non-empty articles list
    exhausted,        \* some day's fetch has failed (None returned, or raised)
    net,              \* an HTTP request has been issued in this run
    tags              \* date strings written for start_date and end_date

vars == <<variant, pc, start_date, end_date, current_date, req_day, retr,
          outcomes, sleeps, data, df, df_dense, df_top_articles, df_again,
          stats, error, fetched, exhausted, net, tags>>

-----------------------------------------------------------------------------
(* Program constants *)

MAX_RETRIES == 3

TOP_ARTICLES == 20

(* Bounds of the model *)

BaseYear == 2024

\* longest requested range of a run, in days after start
MaxSpan == 2

\* the span of the one long range of the model, which starts on December 31
LongSpan == 11

\* most days of a raw table given to the normalizer
MaxNormDays == 3

\* most days of a raw table that holds more than TOP_ARTICLES articles
MaxFillDays == 2

-----------------------------------------------------------------------------
(* The calendar: datetime arithmetic on absolute day numbers *)

IsLeap(y) == (y % 4 = 0 /\ y % 100 # 0) \/ y % 400 = 0

DaysInMonth(y, m) ==
    IF m = 2 THEN (IF IsLeap(y) THEN 29 ELSE 28)
    ELSE IF m \in {4, 6, 9, 11} THEN 30 ELSE 31

DaysInYear(y) == IF IsLeap(y) THEN 366 ELSE 365

RECURSIVE DaysBeforeYear(_)
DaysBeforeYear(y) ==
    IF y <= BaseYear THEN 0 ELSE DaysBeforeYear(y - 1) + DaysInYear(y - 1)

RECURSIVE DaysBeforeMonth(_, _)
DaysBeforeMonth(y, m) ==
    IF m <= 1 THEN 0 ELSE DaysBeforeMonth(y, m - 1) + DaysInMonth(y, m - 1)

\* the day number of the calendar date y-m-d
Ordinal(y, m, d) == DaysBeforeYear(y) + DaysBeforeMonth(y, m) + d

RECURSIVE YearFrom(_, _)
YearFrom(y, n) == IF n <= DaysInYear(y) THEN y ELSE YearFrom(y + 1, n - DaysInYear(y))

\* current_date.year
YearOf(n) == YearFrom(BaseYear, n)

RECURSIVE MonthFrom(_, _, _)
MonthFrom(y, m, n) ==
    IF n <= DaysInMonth(y, m) THEN m ELSE MonthFrom(y, m + 1, n - DaysInMonth(y, m))

\* current_date.month
MonthOf(n) == MonthFrom(YearOf(n), 1, n - DaysBeforeYear(YearOf(n)))

\* current_date.day
DayOf(n) == n - DaysBeforeYear(YearOf(n)) - DaysBeforeMonth(YearOf(n), MonthOf(n))

-----------------------------------------------------------------------------
(* The date string of a day: f"{year}{month}{day}" of str(int) parts *)

\* str(n) for a natural number n: its decimal digits, without padding
RECURSIVE Str(_)
Str(n) == IF n < 10 THEN <<n>> ELSE Append(Str(n \div 10), n % 10)

\* the value the collector writes in the "date" column for day n
DateTag(n) == Str(YearOf(n)) \o Str(MonthOf(n)) \o Str(DayOf(n))

-----------------------------------------------------------------------------
(* pd.to_datetime of the "date" column.                                    *)
(*                                                                         *)
(* pandas infers one format from the first element; an 8-digit string is   *)
(* inferred as %Y%m%d.  An 8-digit element is then read positionally; an   *)
(* element of another length is matched against the strptime regular       *)
(* expression of %Y%m%d, whose month group tries the two-digit             *)
(* alternatives 1[0-2], 0[1-9] before [1-9], and whose day group tries     *)
(* 3[01], [12]\d, 0[1-9] before [1-9]; the match must consume the string.  *)
(***************************************************************************)

NoDate == 0

Tail2(s, k) == SubSeq(s, k + 1, Len(s))

\* %m matches two characters at the head of r
Month2(r) ==
    /\ Len(r) >= 2
    /\ \/ r[1] = 1 /\ r[2] <= 2
       \/ r[1] = 0 /\ r[2] >= 1

\* %m matches one character at the head of r
Month1(r) == Len(r) >= 1 /\ r[1] >= 1

\* %d matches two characters at the head of r
Day2(r) ==
    /\ Len(r) >= 2
    /\ \/ r[1] = 3 /\ r[2] <= 1
       \/ r[1] \in {1, 2}
       \/ r[1] = 0 /\ r[2] >= 1

\* %d matches one character at the head of r
Day1(r) == Len(r) >= 1 /\ r[1] >= 1

\* number of characters the day group consumes at the head of r (0: no match)
DayWidth(r) == IF Day2(r) THEN 2 ELSE IF Day1(r) THEN 1 ELSE 0

\* number of characters the month group consumes so that a day follows
MonthWidth(r) ==
    IF Month2(r) /\ DayWidth(Tail2(r, 2)) > 0 THEN 2
    ELSE IF Month1(r) /\ DayWidth(Tail2(r, 1)) > 0 THEN 1
    ELSE 0

RECURSIVE Num(_)
Num(s) == IF Len(s) = 0 THEN 0 ELSE 10 * Num(SubSeq(s, 1, Len(s) - 1)) + s[Len(s)]

\* the Timestamp of the calendar date y-m-d, NoDate when there is no such date
MakeDate(y, m, d) ==
    IF m \in 1..12 /\ d >= 1 /\ d <= DaysInMonth(y, m) /\ y >= BaseYear
    THEN Ordinal(y, m, d) ELSE NoDate

\* one element read with the format %Y%m%d; NoDate stands for a ValueError
Strptime(s) ==
    IF Len(s) < 4 THEN NoDate
    ELSE IF Len(s) = 8
    THEN MakeDate(Num(SubSeq(s, 1, 4)), Num(SubSeq(s, 5, 6)), Num(SubSeq(s, 7, 8)))
    ELSE LET r  == Tail2(s, 4)
             mw == MonthWidth(r)
             dw == DayWidth(Tail2(r, mw))
         IN  IF mw = 0 \/ mw + dw # Len(r) THEN NoDate
             ELSE MakeDate(Num(SubSeq(s, 1, 4)), Num(SubSeq(r, 1, mw)),
                           Num(Tail2(r, mw)))

-----------------------------------------------------------------------------
(* The API client: get_top_wiki_articles *)

\* what one requests.get can come to: a 2xx response, HTTP 429, another
\* error status (raise_for_status raises), a connection error or timeout
Outcomes == {"ok", "429", "status", "transport"}

None == [kind |-> "None", articles |-> <<>>]

\* response.json(): a body without items, one whose first item has an empty
\* articles list, one with the articles given
NoItems == [kind |-> "noitems", articles |-> <<>>]

JsonBody(arts) == [kind |-> "items", articles |-> arts]

\* wait_time = 2 ** retr + 1
wait_time(r) == 2 ^ r + 1

\* the state of a call before the first iteration of "for retr in range(3)"
\* (ok: the call returns response.json() of its last request)
CallInit == [retr |-> 0, outcomes |-> <<>>, sleeps |-> <<>>, ok |-> FALSE,
             done |-> FALSE]

\* a loop that runs one iteration more than MAX_RETRIES
LoopOneMore(r) == r >= MAX_RETRIES

\* the budget of the for loop is used up after iteration r
LoopExhausted(r) == r + 1 >= MAX_RETRIES

\* the iteration r of the loop on a 429: sleep, continue
On429(c) ==
    [c EXCEPT !.sleeps = Append(@, <<c.retr, wait_time(c.retr)>>),
              !.retr = @ + 1,
              !.done = LoopExhausted(c.retr)]

\* the except branch: sleep(1) unless this was the last attempt
OnRequestException(c) ==
    [c EXCEPT !.sleeps = IF c.retr < MAX_RETRIES - 1
                         THEN Append(@, <<c.retr, 1>>) ELSE @,
              !.retr = @ + 1,
              !.done = LoopExhausted(c.retr)]

\* one iteration of the loop, the request ending in outcome o
Attempt(c, o) ==
    LET c1 == [c EXCEPT !.outcomes = Append(@, o)]
    IN  IF o = "ok" THEN [c1 EXCEPT !.ok = TRUE, !.done = TRUE]
        ELSE IF o = "429" THEN On429(c1)
        ELSE OnRequestException(c1)

\* the whole call against a server that answers script[1], script[2], ...
RECURSIVE RunCall(_, _)
RunCall(c, script) ==
    IF c.done \/ script = <<>> THEN c
    ELSE RunCall(Attempt(c, Head(script)), Tail(script))

get_top_wiki_articles(script) == RunCall(CallInit, script)

\* the value a finished call returns, body being the JSON of its last response
ReturnValue(c, body) == IF c.ok THEN body ELSE None

\* sample_code.py: one request, the body on status 200, None on another
\* status; a transport failure raises out of the call
sample_get_top_wiki_articles(o, body) ==
    [data   |-> IF o = "ok" THEN body ELSE None,
     raised |-> o = "transport"]

-----------------------------------------------------------------------------
(* The collector *)

\* start_date > end_date, or start_date > dt.datetime.now()
DatesInvalid(s, e, now) == s > e \/ s > now

\* if data and "items" in data and len(data["items"]) > 0
HasItems(d) == d.kind = "items"

\* pd.DataFrame(data["items"][0]["articles"]) with the date column set
RowsOf(d, day) ==
    [i \in 1..Len(d.articles) |->
        [article |-> d.articles[i].article,
         views   |-> d.articles[i].views,
         date    |-> [str |-> DateTag(day)]]]

\* lines 99-102: the rows one day adds to df
Collected(table, d, day) == IF HasItems(d) THEN table \o RowsOf(d, day) ELSE table

-----------------------------------------------------------------------------
(* The normalizer: process_wiki_data *)

\* a missing views value (NaN); observed views are non-negative
NaN == -1

\* the outcome of process_wiki_data: the exception raised, or the table df
\* after the forward fill (line 131) and the table returned (line 136)
Fail(e) == [err |-> e, dense |-> <<>>, rows |-> <<>>]

Ok(dense, rows) == [err |-> "none", dense |-> dense, rows |-> rows]

IsTs(c) == DOMAIN c = {"ts"}

\* how pandas reads a column of strings: "infer" reads every element with the
\* format inferred from the first one (pandas 2), "each" reads every element
\* on its own (earlier versions); a string that is not 8 digits long is read
\* only through an inferred %Y%m%d
PandasModes == {"infer", "each"}

ReadCell(c, first, mode) ==
    IF IsTs(c) THEN c.ts
    ELSE IF Len(c.str) = 8 THEN Strptime(c.str)
    ELSE IF mode = "infer" /\ ~IsTs(first) /\ Len(first.str) = 8 THEN Strptime(c.str)
    ELSE NoDate

\* the sequence <<f[lo], ..., f[hi]>>, each element evaluated once
RECURSIVE SeqOf(_, _, _)
SeqOf(f, lo, hi) ==
    IF lo > hi THEN <<>>
    ELSE IF lo = hi THEN <<f[lo]>>
    ELSE LET mid == (lo + hi) \div 2
         IN  SeqOf(f, lo, mid) \o SeqOf(f, mid + 1, hi)

\* df["date"] = pd.to_datetime(df["date"]); a NoDate element: the call raises
to_datetime(col, mode) ==
    SeqOf([i \in DOMAIN col |-> ReadCell(col[i], col[1], mode)], 1, Len(col))

SeqRange(s) == {s[i] : i \in DOMAIN s}

SetMin(S) == CHOOSE x \in S : \A y \in S : x <= y

SetMax(S) == CHOOSE x \in S : \A y \in S : x >= y

\* df["article"].unique(): the articles in order of first appearance
RECURSIVE Unique(_, _)
Unique(s, seen) ==
    IF s = <<>> THEN <<>>
    ELSE IF Head(s) \in seen THEN Unique(Tail(s), seen)
    ELSE <<Head(s)>> \o Unique(Tail(s), seen \cup {Head(s)})

\* the index set by set_index(["article", "date"]) holds a label twice
HasDuplicates(t, dates) ==
    \E i, j \in DOMAIN t :
        i < j /\ t[i].article = t[j].article /\ dates[i] = dates[j]

\* MultiIndex.from_product, set_index, reindex, reset_index: one row per
\* article and day of [min(date), max(date)], article-major, with the views
\* of the raw row of that label, NaN where there is none
Reindexed(t, dates) ==
    LET arts == Unique([i \in DOMAIN t |-> t[i].article], {})
        lo   == SetMin(SeqRange(dates))
        hi   == SetMax(SeqRange(dates))
        nd   == hi - lo + 1
        at(a, d) == {i \in DOMAIN t : t[i].article = a /\ dates[i] = d}
    IN  SeqOf([k \in 1..(Len(arts) * nd) |->
                LET a == arts[((k - 1) \div nd) + 1]
                    d == lo + ((k - 1) % nd)
                IN  [article |-> a,
                     views   |-> IF at(a, d) = {} THEN NaN
                                 ELSE t[CHOOSE i \in at(a, d) : TRUE].views,
                     date    |-> [ts |-> d]]],
              1, Len(arts) * nd)

\* a fill over the whole column, without the grouping by article
FillAcrossArticles(rows, k, prev) ==
    IF rows[k].views # NaN THEN rows[k].views
    ELSE IF k > 1 THEN prev
    ELSE NaN

\* groupby("article")["views"].transform(lambda x: x.ffill()) on rows that
\* are article-major and chronological within an article
\* the filled views of row k, prev being the filled views of row k - 1: a
\* missing value takes the value carried within the same article
FillOne(rows, k, prev) ==
    IF rows[k].views # NaN THEN rows[k].views
    ELSE IF k > 1 /\ rows[k - 1].article = rows[k].article THEN prev
    ELSE NaN

\* the filled views of rows lo..hi, in one pass from lo to hi (the range is
\* halved so that the evaluation does not nest hi - lo deep)
RECURSIVE FillRange(_, _, _, _)
FillRange(rows, lo, hi, prev) ==
    IF lo = hi THEN <<FillOne(rows, lo, prev)>>
    ELSE LET mid  == (lo + hi) \div 2
             left == FillRange(rows, lo, mid, prev)
         IN  left \o FillRange(rows, mid + 1, hi, left[Len(left)])

ffill(rows) ==
    IF rows = <<>> THEN <<>>
    ELSE LET filled == FillRange(rows, 1, Len(rows), NaN)
         IN  [k \in DOMAIN rows |-> [rows[k] EXCEPT !.views = filled[k]]]

\* groupby("article")["views"].last(): the last non-missing views of each
\* article (NaN when it has none)
last_values(rows) ==
    [a \in {rows[k].article : k \in DOMAIN rows} |->
        LET present(r) == r.article = a /\ r.views # NaN
            obs == SelectSeq(rows, present)
        IN  IF obs = <<>> THEN NaN ELSE obs[Len(obs)].views]

\* Series.nsmallest(n) in the place of nlargest
nsmallest(lv, n) ==
    {a \in DOMAIN lv :
        Cardinality({b \in DOMAIN lv :
            lv[b] < lv[a] \/ (lv[b] = lv[a] /\ b < a)}) < n}

\* a selection of one article fewer than asked for
nlargest_short(lv, n) ==
    {a \in DOMAIN lv :
        Cardinality({b \in DOMAIN lv :
            lv[b] > lv[a] \/ (lv[b] = lv[a] /\ b < a)}) < n - 1}

\* Series.nlargest(n): the n largest kept, missing values (below every
\* count of views) last, equal values in the order of the (sorted) group keys
nlargest(lv, n) ==
    {a \in DOMAIN lv :
        Cardinality({b \in DOMAIN lv :
            lv[b] > lv[a] \/ (lv[b] = lv[a] /\ b < a)}) < n}

\* df[df["article"].isin(top)]
FilterIsin(rows, top) ==
    LET isin(r) == r.article \in top IN SelectSeq(rows, isin)

\* the dense, forward-filled table (the state of df after line 131)
Dense(t, dates) == ffill(Reindexed(t, dates))

top_articles(dense) == nlargest(last_values(dense), TOP_ARTICLES)

\* the dates pandas reads in the date column of t
DatesOf(t, mode) == to_datetime([i \in DOMAIN t |-> t[i].date], mode)

\* line 120 raises: a table without columns (KeyError), an unreadable date
ParseFails(t, mode) ==
    t = <<>> \/ LET dates == DatesOf(t, mode)
                IN  \E i \in DOMAIN dates : dates[i] = NoDate

\* df after line 120, which assigns the parsed column to the caller's table
Parsed(t, mode) ==
    LET dates == DatesOf(t, mode)
    IN  [i \in DOMAIN t |-> [t[i] EXCEPT !.date = [ts |-> dates[i]]]]

\* df after line 131, for a table whose dates were read
DenseOf(t, mode) == Dense(t, DatesOf(t, mode))

process_wiki_data(t, mode) ==
    IF t = <<>> THEN Fail("KeyError")
    ELSE IF ParseFails(t, mode) THEN Fail("ParseError")
    ELSE IF HasDuplicates(t, DatesOf(t, mode)) THEN Fail("ReindexError")
    ELSE LET dense == DenseOf(t, mode)
         IN  Ok(dense, FilterIsin(dense, top_articles(dense)))

-----------------------------------------------------------------------------
(* The statistics: calculate_statistics *)

\* s[lo] + ... + s[hi]
RECURSIVE SumRange(_, _, _)
SumRange(s, lo, hi) ==
    IF lo > hi THEN 0
    ELSE IF lo = hi THEN s[lo]
    ELSE LET mid == (lo + hi) \div 2
         IN  SumRange(s, lo, mid) + SumRange(s, mid + 1, hi)

RECURSIVE SumOver(_, _)
SumOver(S, f) ==
    IF S = {} THEN 0
    ELSE LET x == CHOOSE y \in S : TRUE IN f[x] + SumOver(S \ {x}, f)

RECURSIVE Gcd(_, _)
Gcd(a, b) == IF b = 0 THEN a ELSE Gcd(b, a % b)

RECURSIVE LcmOver(_, _)
LcmOver(S, f) ==
    IF S = {} THEN 1
    ELSE LET x == CHOOSE y \in S : TRUE
             r == LcmOver(S \ {x}, f)
         IN  (f[x] * r) \div Gcd(f[x], r)

\* int(mean of num[a] / den[a] over a in S), computed exactly
TruncMeanOfRatios(S, num, den) ==
    LET l == LcmOver(S, den)
    IN  SumOver(S, [a \in S |-> num[a] * (l \div den[a])]) \div (l * Cardinality(S))

\* lines 142-149: views_sum[article] += views makes the sum NaN as soon as a
\* row of the article is missing; count[article] counts every row
views_sum(top) ==
    [a \in {top[k].article : k \in DOMAIN top} |->
        LET mine(r) == r.article = a
            own == SelectSeq(top, mine)
        IN  IF \E k \in DOMAIN own : own[k].views = NaN THEN NaN
            ELSE SumRange([k \in DOMAIN own |-> own[k].views], 1, Len(own))]

count(top) ==
    [a \in {top[k].article : k \in DOMAIN top} |->
        LET mine(r) == r.article = a IN Len(SelectSeq(top, mine))]

\* lines 151-152: np.nanmean skips the articles whose mean is NaN; with none
\* left it gives nan, and int(nan) raises ValueError
mean_views(top) ==
    LET vs   == views_sum(top)
        good == {a \in DOMAIN vs : vs[a] # NaN}
    IN  IF good = {} THEN NaN
        ELSE TruncMeanOfRatios(good, vs, count(top))

\* df["views"].max() and df["article"].nunique() of the original raw table
max_views(t) == SetMax({t[i].views : i \in DOMAIN t})

unique_articles(t) == Cardinality({t[i].article : i \in DOMAIN t})

NoStats == [mean |-> NaN, max |-> NaN, unique |-> 0]

calculate_statistics(t, top) ==
    IF mean_views(top) = NaN THEN [err |-> "ValueError", stats |-> NoStats]
    ELSE [err   |-> "none",
          stats |-> [mean   |-> mean_views(top),
                     max    |-> max_views(t),
                     unique |-> unique_articles(t)]]

-----------------------------------------------------------------------------
(* The run: main() of refactoring_code.py, the module body of sample_code.py *)

Variants == {"refactoring", "sample"}

\* dt.datetime.now() falls on this day
Today == Ordinal(BaseYear + 1, 1, 20)

YearEnd == Ordinal(BaseYear, 12, 31)

\* the start dates given on the command line
Starts == {YearEnd, Today, Today + 1}

\* the articles the server lists for a day
TopOf(day) == <<[article |-> 1, views |-> 10 + DayOf(day)]>>

\* the JSON bodies a successful response can carry for a day
Bodies(day) == {NoItems, JsonBody(<<>>), JsonBody(TopOf(day))}

\* the answers of the server to the (at most MAX_RETRIES) requests of a call
Scripts == [1..MAX_RETRIES -> Outcomes]

\* the calls the server's answers can make of get_top_wiki_articles
Calls == {get_top_wiki_articles(script) : script \in Scripts}

\* what get_top_wiki_articles can return for a day
Returned(day) == {ReturnValue(c, body) : c \in Calls, body \in Bodies(day)}

Idle ==
    /\ retr = 0 /\ outcomes = <<>> /\ sleeps = <<>> /\ data = None
    /\ df = <<>> /\ df_dense = <<>> /\ df_top_articles = <<>> /\ df_again = <<>>
    /\ stats = NoStats /\ error = "none" /\ fetched = {} /\ exhausted = FALSE
    /\ net = FALSE /\ tags = <<>>

Init ==
    /\ variant \in Variants
    /\ start_date \in Starts
    /\ \/ end_date \in (start_date - 1)..(start_date + MaxSpan)
       \/ /\ variant = "refactoring" /\ start_date = YearEnd
          /\ end_date = start_date + LongSpan
    /\ current_date = start_date
    /\ req_day = start_date
    /\ pc = "main"
    /\ Idle

Raise(e) == pc' = "exit1" /\ error' = e

\* main, line 195: validate_dates(start_date, end_date)
validate_dates ==
    /\ pc = "main" /\ variant = "refactoring"
    /\ IF DatesInvalid(start_date, end_date, Today)
       THEN Raise("ValidationError")
       ELSE pc' = "collect" /\ error' = error
    /\ UNCHANGED <<variant, start_date, end_date, current_date, req_day, retr,
                   outcomes, sleeps, data, df, df_dense, df_top_articles,
                   df_again, stats, fetched, exhausted, net, tags>>

\* sample_code.py, lines 35-39: the dates are parsed and the loop is entered
sample_start ==
    /\ pc = "main" /\ variant = "sample"
    /\ pc' = "collect"
    /\ UNCHANGED <<variant, start_date, end_date, current_date, req_day, retr,
                   outcomes, sleeps, data, df, df_dense, df_top_articles,
                   df_again, stats, error, fetched, exhausted, net, tags>>

\* collect_wiki_data, lines 91-107: one iteration of the loop over the days
collect_day ==
    /\ pc = "collect" /\ variant = "refactoring"
    /\ current_date <= end_date
    /\ \E d \in Returned(current_date) :
          /\ df' = Collected(df, d, current_date)
          /\ fetched' = IF HasItems(d) /\ d.articles # <<>>
                        THEN fetched \cup {current_date} ELSE fetched
          /\ exhausted' = (exhausted \/ d = None)
    /\ req_day' = current_date
    /\ current_date' = current_date + 1
    /\ net' = TRUE
    /\ UNCHANGED <<variant, pc, start_date, end_date, retr, outcomes, sleeps,
                   data, df_dense, df_top_articles, df_again, stats, error, tags>>

\* collect_wiki_data, lines 109-114: the loop is over
collect_end ==
    /\ pc = "collect" /\ variant = "refactoring"
    /\ current_date > end_date
    /\ IF df = <<>> THEN Raise("DataUnavailable")
       ELSE pc' = "process" /\ error' = error
    /\ UNCHANGED <<variant, start_date, end_date, current_date, req_day, retr,
                   outcomes, sleeps, data, df, df_dense, df_top_articles,
                   df_again, stats, fetched, exhausted, net, tags>>

\* sample_code.py, lines 40-48: one iteration; data["items"][0]["articles"]
\* raises on None (TypeError) and on a body without items
sample_collect_day ==
    /\ pc = "collect" /\ variant = "sample"
    /\ current_date <= end_date
    /\ \E o \in Outcomes, body \in Bodies(current_date) :
          LET r == sample_get_top_wiki_articles(o, body)
          IN  /\ IF r.raised THEN Raise("ConnectionError") /\ df' = df
                 ELSE IF r.data = None THEN Raise("TypeError") /\ df' = df
                 ELSE IF ~HasItems(r.data) THEN Raise("IndexError") /\ df' = df
                 ELSE /\ df' = df \o RowsOf(r.data, current_date)
                      /\ pc' = pc /\ error' = error
              /\ fetched' = IF ~r.raised /\ HasItems(r.data) /\ r.data.articles # <<>>
                            THEN fetched \cup {current_date} ELSE fetched
              /\ exhausted' = (exhausted \/ r.raised \/ r.data = None)
    /\ req_day' = current_date
    /\ current_date' = current_date + 1
    /\ net' = TRUE
    /\ UNCHANGED <<variant, start_date, end_date, retr, outcomes, sleeps,
                   data, df_dense, df_top_articles, df_again, stats, tags>>

\* sample_code.py: the loop is over, line 50 follows
sample_collect_end ==
    /\ pc = "collect" /\ variant = "sample"
    /\ current_date > end_date
    /\ pc' = "process"
    /\ UNCHANGED <<variant, start_date, end_date, current_date, req_day, retr,
                   outcomes, sleeps, data, df, df_dense, df_top_articles,
                   df_again, stats, error, fetched, exhausted, net, tags>>

\* process_wiki_data(df) (sample_code.py, lines 50-60)
process ==
    /\ pc = "process"
    /\ \E mode \in PandasModes :
          LET r == process_wiki_data(df, mode)
          IN  /\ df' = IF ParseFails(df, mode) THEN df ELSE Parsed(df, mode)
              /\ df_dense' = r.dense
              /\ df_top_articles' = r.rows
              /\ IF r.err = "none" THEN pc' = "statistics" /\ error' = error
                 ELSE Raise(r.err)
    /\ UNCHANGED <<variant, start_date, end_date, current_date, req_day, retr,
                   outcomes, sleeps, data, df_again, stats, fetched, exhausted,
                   net, tags>>

\* calculate_statistics(df_original, df_top_articles) (sample_code.py, 62-75)
statistics ==
    /\ pc = "statistics"
    /\ LET r == calculate_statistics(df, df_top_articles)
       IN  /\ stats' = r.stats
           /\ IF r.err = "none" THEN pc' = "done" /\ error' = error
              ELSE Raise(r.err)
    /\ UNCHANGED <<variant, start_date, end_date, current_date, req_day, retr,
                   outcomes, sleeps, data, df, df_dense, df_top_articles,
                   df_again, fetched, exhausted, net, tags>>

Next ==
    \/ validate_dates
    \/ sample_start
    \/ collect_day
    \/ collect_end
    \/ sample_collect_day
    \/ sample_collect_end
    \/ process
    \/ statistics

Spec == Init /\ [][Next]_vars

-----------------------------------------------------------------------------
(* One call of get_top_wiki_articles, request by request *)

\* the days a call is made for
FetchDays == {YearEnd, Today}

FetchInit ==
    /\ variant = "refactoring"
    /\ start_date = YearEnd /\ end_date = Today
    /\ req_day \in FetchDays
    /\ current_date = req_day + 1
    /\ pc = "request"
    /\ Idle

\* one iteration of the loop of lines 39-66, and lines 68-69 after the last
request ==
    /\ pc = "request"
    /\ \E o \in Outcomes, body \in Bodies(req_day) :
          LET c == Attempt([retr |-> retr, outcomes |-> outcomes,
                            sleeps |-> sleeps, ok |-> FALSE, done |-> FALSE], o)
          IN  /\ retr' = c.retr
              /\ outcomes' = c.outcomes
              /\ sleeps' = c.sleeps
              /\ data' = ReturnValue(c, body)
              /\ pc' = IF c.done THEN "returned" ELSE "request"
    /\ net' = TRUE
    /\ UNCHANGED <<variant, start_date, end_date, current_date, req_day, df,
                   df_dense, df_top_articles, df_again, stats, error, fetched,
                   exhausted, tags>>

FetchNext == request

SpecFetch == FetchInit /\ [][FetchNext]_vars

-----------------------------------------------------------------------------
(* The date strings of two days of one range *)

TagInit ==
    /\ variant \in Variants
    /\ start_date \in 1..DaysInYear(BaseYear)
    /\ end_date \in start_date..DaysInYear(BaseYear)
    /\ current_date = start_date
    /\ req_day = start_date
    /\ pc = "tag"
    /\ Idle

\* lines 92-94 and 101 for the first and the last day of the range
tag_days ==
    /\ pc = "tag"
    /\ tags' = <<DateTag(start_date), DateTag(end_date)>>
    /\ pc' = "tagged"
    /\ UNCHANGED <<variant, start_date, end_date, current_date, req_day, retr,
                   outcomes, sleeps, data, df, df_dense, df_top_articles,
                   df_again, stats, error, fetched, exhausted, net>>

TagNext == tag_days

SpecTag == TagInit /\ [][TagNext]_vars

-----------------------------------------------------------------------------
(* The normalizer and the statistics on raw tables of every shape *)

\* the first day of a raw table: December 30 and October 9 of BaseYear
NormStarts == {Ordinal(BaseYear, 12, 30), Ordinal(BaseYear, 10, 9)}

\* articles 1 and 2 take every combination of views over the days
FreeArticles == {1, 2}

CellValues == {NaN, 10, 30}

\* the views of articles 1 and 2 in a table that holds further articles
FilledCellValues == {NaN, 30}

\* the further articles 3, 4, ... of a table, all following one pattern
FillCounts == {TOP_ARTICLES - 1, TOP_ARTICLES}

FillPatterns == {"every day", "first day", "last day"}

\* the views the server lists for article a > 2 on day i of nd
FillViews(pattern, a, i, nd) ==
    IF pattern = "every day" THEN 30
    ELSE IF pattern = "first day" THEN (IF i = 1 THEN 20 + a ELSE NaN)
    ELSE (IF i = nd THEN 20 + a ELSE NaN)

\* the raw table the collector builds over nd days from first: day by day,
\* the articles listed that day (cells: the views of articles 1 and 2,
\* nfill: the number of further articles)
RawTable(first, nd, cells, nfill, pattern) ==
    LET n == Cardinality(FreeArticles) + nfill
        listed(r) == r.views # NaN
    IN  SelectSeq(
            SeqOf([k \in 1..(nd * n) |->
                      LET i == ((k - 1) \div n) + 1
                          a == ((k - 1) % n) + 1
                      IN  [article |-> a,
                           views   |-> IF a \in FreeArticles THEN cells[a, i]
                                       ELSE FillViews(pattern, a, i, nd),
                           date    |-> [str |-> DateTag(first + i - 1)]]],
                  1, nd * n),
            listed)

NormInit ==
    /\ variant = "refactoring"
    /\ \E first \in NormStarts, nd \in 1..MaxNormDays :
          /\ start_date = first /\ end_date = first + nd - 1
          /\ \E cells \in [FreeArticles \X (1..nd) -> CellValues] :
                \/ df = RawTable(first, nd, cells, 0, "every day")
                \/ /\ first = Ordinal(BaseYear, 12, 30) /\ nd <= MaxFillDays
                   /\ \A a \in FreeArticles, i \in 1..nd :
                         cells[a, i] \in FilledCellValues
                   /\ \E nfill \in FillCounts, pattern \in FillPatterns :
                         df = RawTable(first, nd, cells, nfill, pattern)
    /\ df # <<>>
    /\ current_date = end_date + 1
    /\ req_day = end_date
    /\ pc = "process"
    /\ retr = 0 /\ outcomes = <<>> /\ sleeps = <<>> /\ data = None
    /\ df_dense = <<>> /\ df_top_articles = <<>> /\ df_again = <<>>
    /\ stats = NoStats /\ error = "none" /\ fetched = {} /\ exhausted = FALSE
    /\ net = FALSE /\ tags = <<>>

\* process_wiki_data applied to the table process_wiki_data returned
reprocess ==
    /\ pc = "statistics" /\ df_again = <<>>
    /\ \E mode \in PandasModes :
          LET r == process_wiki_data(df_top_articles, mode)
          IN  /\ df_again' = r.rows
              /\ IF r.err = "none" THEN pc' = pc /\ error' = error
                 ELSE Raise(r.err)
    /\ UNCHANGED <<variant, start_date, end_date, current_date, req_day, retr,
                   outcomes, sleeps, data, df, df_dense, df_top_articles,
                   stats, fetched, exhausted, net, tags>>

NormNext == process \/ reprocess \/ statistics

SpecNorm == NormInit /\ [][NormNext]_vars

-----------------------------------------------------------------------------
(* Helpers of the properties *)

ArticlesOf(t) == {t[k].article : k \in DOMAIN t}

DaysOf(t) == {t[k].date.ts : k \in DOMAIN t}

\* the rows of a table whose dates are Timestamps, as a set
RowSet(t) == {<<t[k].article, t[k].date.ts, t[k].views>> : k \in DOMAIN t}

\* process_wiki_data has returned a table for df
Normalized == pc \in {"statistics", "done"} /\ df_dense # <<>>

\* the views the raw table holds for (a, d), or NaN
Observed(t, a, d) ==
    LET at == {k \in DOMAIN t : t[k].article = a /\ t[k].date.ts = d}
    IN  IF at = {} THEN NaN ELSE t[CHOOSE k \in at : TRUE].views

\* the views of the nearest day e <= d on which the raw table has (a, e)
NearestEarlier(t, a, d) ==
    LET es == {e \in DaysOf(t) : e <= d /\ Observed(t, a, e) # NaN}
    IN  IF es = {} THEN NaN ELSE Observed(t, a, SetMax(es))

MinOf(x, y) == IF x <= y THEN x ELSE y

-----------------------------------------------------------------------------
(* C1: a call of get_top_wiki_articles issues at most MAX_RETRIES requests,  *)
(* whatever the server answers (429 included); it returns the body of the    *)
(* first successful request, and None once MAX_RETRIES requests have failed. *)
C1_BoundedRetries ==
    LET n == Len(outcomes)
    IN  /\ n <= MAX_RETRIES
        /\ \A i \in 1..(n - 1) : outcomes[i] # "ok"
        /\ pc = "request" => n < MAX_RETRIES /\ retr = n /\ "ok" \notin SeqRange(outcomes)
        /\ pc = "returned" =>
              /\ n >= 1
              /\ outcomes[n] = "ok" => data \in Bodies(req_day)
              /\ outcomes[n] # "ok" => n = MAX_RETRIES /\ data = None

\* three answers of 429 in a row: the call has returned None
C1_Witness ==
    pc = "returned" /\ outcomes = <<"429", "429", "429">> /\ data = None

-----------------------------------------------------------------------------
(* C9: a 429 on attempt i is followed by a wait of 2^i + 1 and another       *)
(* failure by a wait of 1, and a wait happens only between attempts: never   *)
(* after the last attempt.                                                   *)
C9_WaitsOnlyBetweenAttempts ==
    /\ \A k \in 1..Len(outcomes) :
          (outcomes[k] # "ok" /\ k < MAX_RETRIES) =>
              <<k - 1, IF outcomes[k] = "429" THEN 2 ^ (k - 1) + 1 ELSE 1>>
                  \in SeqRange(sleeps)
    /\ \A j \in DOMAIN sleeps : sleeps[j][1] < MAX_RETRIES - 1
    /\ Len(sleeps) <= Len(outcomes)

\* what the code does: the waits are those of the claim, and a 429 on the
\* last attempt is followed by a wait as well
C9_Observed ==
    /\ Len(sleeps) <= Len(outcomes)
    /\ \A j \in DOMAIN sleeps :
          LET i == sleeps[j][1]
          IN  /\ i + 1 <= Len(outcomes)
              /\ outcomes[i + 1] = "429" => sleeps[j][2] = 2 ^ i + 1
              /\ outcomes[i + 1] # "429" =>
                    sleeps[j][2] = 1 /\ i < MAX_RETRIES - 1

-----------------------------------------------------------------------------
(* C2: a day whose fetch fails does not abort the run, and the run raises    *)
(* the data-unavailable error exactly when the collection ended with no row. *)
C2_FailedDayDoesNotAbort ==
    /\ error \notin {"ConnectionError", "TypeError", "IndexError"}
    /\ error = "DataUnavailable" => df = <<>> /\ current_date > end_date
    /\ pc = "process" => df # <<>>

\* the same for collect_wiki_data of refactoring_code.py alone
C2_Refactored == variant = "refactoring" => C2_FailedDayDoesNotAbort

\* a failed day followed by a day with rows, in the refactored script
C2_RefactoredReached ==
    variant = "refactoring" /\ exhausted /\ pc = "process" /\ df # <<>>

-----------------------------------------------------------------------------
(* C3: with start > end or start in the future the run raises the           *)
(* validation error and issues no HTTP request.                              *)
C3_InvalidRangeNoRequest ==
    DatesInvalid(start_date, end_date, Today) =>
        /\ ~net
        /\ pc # "main" => pc = "exit1" /\ error = "ValidationError"

\* the same for main() of refactoring_code.py alone
C3_Refactored == variant = "refactoring" => C3_InvalidRangeNoRequest

-----------------------------------------------------------------------------
(* C4: every row of the collected table, its date read as the normalizer    *)
(* reads it, is of a day in [start, end] whose fetch returned articles.      *)
C4_RowsWithinRange ==
    variant = "refactoring" =>
        \A k \in DOMAIN df :
            IsTs(df[k].date) =>
                /\ df[k].date.ts \in start_date..end_date
                /\ df[k].date.ts \in fetched

-----------------------------------------------------------------------------
(* C10: the date strings of two distinct days of one range differ.           *)
C10_TagsDistinct ==
    (pc = "tagged" /\ start_date # end_date) => tags[1] # tags[2]

-----------------------------------------------------------------------------
(* C5: the table after the forward fill has exactly one row for every        *)
(* article and every day of [min(date), max(date)] of the raw table; its     *)
(* views are the observed ones, else those of the nearest earlier day with   *)
(* an observation of the article, else missing.                              *)
C5_DenseForwardFilled ==
    Normalized =>
        LET arts == ArticlesOf(df)
            lo   == SetMin(DaysOf(df))
            hi   == SetMax(DaysOf(df))
        IN  /\ Len(df_dense) = Cardinality(arts) * (hi - lo + 1)
            /\ \A a \in arts, d \in lo..hi :
                  \E k \in DOMAIN df_dense :
                      /\ df_dense[k].article = a /\ df_dense[k].date.ts = d
                      /\ df_dense[k].views = NearestEarlier(df, a, d)
                      /\ \A j \in DOMAIN df_dense :
                            (df_dense[j].article = a /\ df_dense[j].date.ts = d)
                                => j = k

\* observations 10, missing, 30 of one article give 10, 10, 30
C5_Witness ==
    /\ Normalized
    /\ [k \in DOMAIN df |-> df[k].views] = <<10, 30>>
    /\ [k \in DOMAIN df_dense |-> df_dense[k].views] = <<10, 10, 30>>

-----------------------------------------------------------------------------
(* C6: the selection holds min(TOP_ARTICLES, number of articles) articles,   *)
(* none outside it has a larger last forward-filled value than one inside    *)
(* it, and the returned table is exactly the dense rows of the selection.    *)
C6_TopSelection ==
    Normalized =>
        LET arts == ArticlesOf(df_dense)
            sel  == ArticlesOf(df_top_articles)
            hi   == SetMax(DaysOf(df))
            lastv(a) == NearestEarlier(df, a, hi)
        IN  /\ Cardinality(sel) = MinOf(TOP_ARTICLES, Cardinality(arts))
            /\ sel \subseteq arts
            /\ \A a \in sel, b \in arts \ sel : lastv(b) <= lastv(a)
            /\ RowSet(df_top_articles) =
                  {r \in RowSet(df_dense) : r[1] \in sel}
            /\ Len(df_top_articles) = Cardinality(RowSet(df_top_articles))

\* more than TOP_ARTICLES articles, of which one with a larger last value
\* than another is kept and the other is dropped
C6_Witness ==
    /\ Normalized
    /\ Cardinality(ArticlesOf(df_dense)) > TOP_ARTICLES
    /\ Cardinality(ArticlesOf(df_top_articles)) = TOP_ARTICLES
    /\ \E a \in ArticlesOf(df_top_articles),
          b \in ArticlesOf(df_dense) \ ArticlesOf(df_top_articles) :
          NearestEarlier(df, b, SetMax(DaysOf(df)))
              < NearestEarlier(df, a, SetMax(DaysOf(df)))

-----------------------------------------------------------------------------
(* C7: the reported mean is the truncated mean, over every article of the    *)
(* top table, of the sum of its views divided by the number of rows that     *)
(* contribute to the sum, for every raw table.                               *)
C7_MeanOfArticleMeans ==
    /\ pc = "done" =>
          LET arts == ArticlesOf(df_top_articles)
              num  == [a \in arts |->
                         SumOver({k \in DOMAIN df_top_articles :
                                     /\ df_top_articles[k].article = a
                                     /\ df_top_articles[k].views # NaN},
                                 [k \in DOMAIN df_top_articles |->
                                     df_top_articles[k].views])]
              den  == [a \in arts |->
                         Cardinality({k \in DOMAIN df_top_articles :
                                        /\ df_top_articles[k].article = a
                                        /\ df_top_articles[k].views # NaN})]
          IN  stats.mean = TruncMeanOfRatios(arts, num, den)
    /\ error # "ValueError"

\* what the code reports: the mean over the articles without a missing row
C7_Observed ==
    pc = "done" =>
        LET full == {a \in ArticlesOf(df_top_articles) :
                        \A k \in DOMAIN df_top_articles :
                            df_top_articles[k].article = a
                                => df_top_articles[k].views # NaN}
            nd   == Cardinality(DaysOf(df_top_articles))
            num  == [a \in full |->
                       SumOver({k \in DOMAIN df_top_articles :
                                   df_top_articles[k].article = a},
                               [k \in DOMAIN df_top_articles |->
                                   df_top_articles[k].views])]
        IN  /\ full # {}
            /\ stats.mean = SumOver(full, num) \div (nd * Cardinality(full))

-----------------------------------------------------------------------------
(* C8: process_wiki_data applied to a table that is already dense and        *)
(* forward-filled returns the same rows, however many articles it holds.     *)

\* the raw table df has one row for every article and day of its range
RawIsDense ==
    /\ Len(df) = Cardinality(ArticlesOf(df))
                    * (SetMax(DaysOf(df)) - SetMin(DaysOf(df)) + 1)
    /\ Cardinality({<<df[k].article, df[k].date.ts>> : k \in DOMAIN df}) = Len(df)

C8_Idempotent ==
    /\ (Normalized /\ RawIsDense) => RowSet(df_top_articles) = RowSet(df)
    /\ (Normalized /\ df_again # <<>>) => df_again = df_top_articles

(* C8 as amended: the same for a table of at most TOP_ARTICLES articles     *)
(* (each with an observation); such are all the tables it returns.           *)
C8_IdempotentUpToTop ==
    /\ (Normalized /\ RawIsDense /\ Cardinality(ArticlesOf(df)) <= TOP_ARTICLES)
          => RowSet(df_top_articles) = RowSet(df)
    /\ (Normalized /\ df_again # <<>>) => df_again = df_top_articles

\* a dense table of two articles over several days has been normalized,
\* and the table returned has been normalized again
C8_Witness ==
    /\ Normalized /\ RawIsDense
    /\ Cardinality(ArticlesOf(df)) = 2 /\ Cardinality(DaysOf(df)) >= 2
    /\ df_again # <<>> /\ df_again = df_top_articles

=============================================================================
